---- MODULE Spec2Model ----
(***************************************************************************)
(* Model of src/src/lib.rs: DropboxContentHasher, the block-composed       *)
(* hasher behind the Dropbox "content_hash", and its two convenience       *)
(* wrappers hash_reader and hash_file.                                     *)
(*                                                                         *)
(* Sha256 is the trusted primitive.  Its running state is modelled as the  *)
(* sequence of everything absorbed so far, and its digest as an injective  *)
(* constructor over that sequence (collision freedom).  A 32-byte digest   *)
(* fed to the overall hasher is one element of the overall sequence.       *)
(***************************************************************************)
EXTENDS Integers, Sequences, FiniteSets, TLC

\* lib.rs:15 sets BLOCK_SIZE to 4 * 1024 * 1024; the model scales it down.
BLOCK_SIZE == 3

\* Largest number of bytes fed to one hasher instance, and longest stream.
MaxTotal == 7

\* The byte alphabet of the model.
Byte == {0, 1}

\* std::io::Error values a byte source or File::open may produce.
IoError == {"Interrupted", "Other"}

Min(a, b) == IF a <= b THEN a ELSE b

ByteSeqs(n) == UNION {[1..k -> Byte] : k \in 0..n}

DropFront(s, n) == SubSeq(s, n + 1, Len(s))

-----------------------------------------------------------------------------
(* The primitive: sha2::Sha256 through digest::{Input, FixedOutput}.       *)

Sha256New == <<>>

Sha256Input(st, data) == st \o data

Sha256Result(st) == [sha256 |-> st]

\* The raw bytes of a digest (GenericArray::as_slice), as fed to a hasher.
AsSlice(digest) == <<digest>>

-----------------------------------------------------------------------------
(* Results.                                                                *)

NoDigest == [none |-> TRUE]

NoRet == [kind |-> "none"]

Ok(d) == [kind |-> "Ok", val |-> d]

Err(e) == [kind |-> "Err", err |-> e]

\* No reset was called on the instance yet.
NoReset == <<>>

\* No collaborator raised an error yet.
NoError == [by |-> "none"]

\* The error e raised by File::open ("open") or reader.read ("read").
Raised(who, e) == [by |-> who, err |-> e]

\* What a panicking pure run of input evaluates to.
Panicked == [panic |-> TRUE]

-----------------------------------------------------------------------------
(* DropboxContentHasher as a value, and its operations as pure functions.  *)

new ==
    [overall_hasher |-> Sha256New,
     block_hasher   |-> Sha256New,
     block_pos      |-> 0]

\* A flush test that fires on any pending byte, not on a full block.
block_is_full_any_pending(pos) == pos > 0

\* lib.rs:105: the test that triggers the flush inside input.
block_is_full(pos) == pos = BLOCK_SIZE

\* A flush that forgets to start a fresh block hasher.
flush_block_keeps_block(h) ==
    [overall_hasher |-> Sha256Input(h.overall_hasher,
                                    AsSlice(Sha256Result(h.block_hasher))),
     block_hasher   |-> h.block_hasher,
     block_pos      |-> 0]

\* A flush that does not set block_pos back to 0.
flush_block_keeps_pos(h) ==
    [overall_hasher |-> Sha256Input(h.overall_hasher,
                                    AsSlice(Sha256Result(h.block_hasher))),
     block_hasher   |-> Sha256New,
     block_pos      |-> h.block_pos]

\* A flush that puts the block's digest in front of the earlier ones.
flush_block_prepends(h) ==
    [overall_hasher |-> Sha256Input(AsSlice(Sha256Result(h.block_hasher)),
                                    h.overall_hasher),
     block_hasher   |-> Sha256New,
     block_pos      |-> 0]

\* lib.rs:106-109: feed the block's digest to the overall hasher, start a
\* new block.
flush_block(h) ==
    [overall_hasher |-> Sha256Input(h.overall_hasher,
                                    AsSlice(Sha256Result(h.block_hasher))),
     block_hasher   |-> Sha256New,
     block_pos      |-> 0]

\* lib.rs:105-110.
flush_if_full(h) == IF block_is_full(h.block_pos) THEN flush_block(h) ELSE h

\* lib.rs:104: the loop test of input, on the length of the input left
\* (block_pos takes no part in it).
loop_continues(len, pos) == len > 0

\* lib.rs:112: BLOCK_SIZE - self.block_pos on usize.  -1 stands for the
\* panic of a build with overflow checks; without them the difference wraps
\* to a value near 2^64, larger than any slice length, modelled by a length
\* no modelled input reaches.
space_in_block(pos, checks) ==
    IF pos <= BLOCK_SIZE THEN BLOCK_SIZE - pos
    ELSE IF checks THEN -1 ELSE MaxTotal + BLOCK_SIZE + 1

\* A split that ignores the room left in the block.
split_index_no_min(len, space) == len

\* A split at the room left, whatever the input's length.
split_index_no_len(len, space) == space

\* lib.rs:113: the split index handed to split_at.
split_index(len, space) == Min(len, space)

\* An absorb that does not advance block_pos.
absorb_no_advance(h, head) ==
    [overall_hasher |-> h.overall_hasher,
     block_hasher   |-> Sha256Input(h.block_hasher, head),
     block_pos      |-> h.block_pos]

\* An absorb that flushes the block as soon as it is full.
absorb_eager_flush(h, head) ==
    flush_if_full(
        [overall_hasher |-> h.overall_hasher,
         block_hasher   |-> Sha256Input(h.block_hasher, head),
         block_pos      |-> h.block_pos + Len(head)])

\* lib.rs:114-116: absorb head into the current block.
absorb(h, head) ==
    [overall_hasher |-> h.overall_hasher,
     block_hasher   |-> Sha256Input(h.block_hasher, head),
     block_pos      |-> h.block_pos + Len(head)]

\* A final flush that is not conditional on block_pos.
has_trailing_block_always(pos) == TRUE

\* A final flush that takes a full block for an already flushed one.
has_trailing_block_partial_only(pos) == pos > 0 /\ pos < BLOCK_SIZE

\* lib.rs:126: the test that makes fixed_result flush the trailing block.
has_trailing_block(pos) == pos > 0

\* lib.rs:125-130: the overall hasher as fixed_result leaves it.
final_overall(h) ==
    IF has_trailing_block(h.block_pos)
    THEN Sha256Input(h.overall_hasher, AsSlice(Sha256Result(h.block_hasher)))
    ELSE h.overall_hasher

\* lib.rs:125-130.
fixed_result(h) == Sha256Result(final_overall(h))

\* lib.rs:102-119 as a function of the state and the whole input.
RECURSIVE input_fn(_, _, _)
input_fn(h, data, checks) ==
    IF ~loop_continues(Len(data), h.block_pos) THEN h
    ELSE LET h1    == flush_if_full(h)
             space == space_in_block(h1.block_pos, checks)
             n     == split_index(Len(data), space)
         IN  IF space < 0 \/ n > Len(data) THEN Panicked
             ELSE input_fn(absorb(h1, SubSeq(data, 1, n)),
                           DropFront(data, n), checks)

\* new(), one input(S), result().
OneShot(S, checks) ==
    LET h == input_fn(new, S, checks)
    IN  IF h = Panicked THEN Panicked ELSE fixed_result(h)

-----------------------------------------------------------------------------
VARIABLES
    mode,            \* "direct": a caller drives the hasher; or the wrapper
    overflow_checks, \* build profile: are usize overflow checks compiled in
    pc,              \* position of the caller / wrapper / input loop
    live,            \* the caller owns a hasher instance (not moved away)
    overall_hasher,  \* self.overall_hasher
    block_hasher,    \* self.block_hasher
    block_pos,       \* self.block_pos
    input,           \* the unconsumed input of the running input call
    output,          \* the digest fixed_result returned, or NoDigest
    stream,          \* hash_reader: the whole content of the byte source
    rpos,            \* hash_reader: bytes of stream already delivered
    buf,             \* hash_reader: the read buffer
    ret,             \* what hash_reader / hash_file returned
    fed,             \* history: bytes passed to input since new / reset
    chunks,          \* history: non-empty input calls since new / reset
    reset_from,      \* history: <<block_pos, digests fed>> at the last reset
    empty_call,      \* history: the last operation is an input of no bytes
    nreads,          \* history: calls of reader.read
    raised           \* history: the error a collaborator raised, and which

hasher == <<overall_hasher, block_hasher, block_pos>>

reader == <<stream, rpos, buf, ret, nreads, raised>>

history == <<fed, chunks, reset_from, empty_call>>

vars == <<mode, overflow_checks, pc, live, overall_hasher, block_hasher,
          block_pos, input, output, stream, rpos, buf, ret, fed, chunks,
          reset_from, empty_call, nreads, raised>>

self ==
    [overall_hasher |-> overall_hasher,
     block_hasher   |-> block_hasher,
     block_pos      |-> block_pos]

Store(h) ==
    /\ overall_hasher' = h.overall_hasher
    /\ block_hasher' = h.block_hasher
    /\ block_pos' = h.block_pos

Init ==
    /\ mode \in {"direct", "hash_reader", "hash_file"}
    /\ overflow_checks \in BOOLEAN
    /\ pc = IF mode = "direct" THEN "idle" ELSE mode
    /\ live = (mode = "direct")
    /\ overall_hasher = new.overall_hasher
    /\ block_hasher = new.block_hasher
    /\ block_pos = new.block_pos
    /\ input = <<>>
    /\ output = NoDigest
    /\ stream \in IF mode = "direct" THEN {<<>>} ELSE ByteSeqs(MaxTotal)
    /\ rpos = 0
    /\ buf = <<>>
    /\ ret = NoRet
    /\ fed = <<>>
    /\ chunks = 0
    /\ reset_from = NoReset
    /\ empty_call = FALSE
    /\ nreads = 0
    /\ raised = NoError

-----------------------------------------------------------------------------
(* The caller's operations on an instance it owns.                         *)

\* lib.rs:35-41, after the previous instance was consumed.
New ==
    /\ mode = "direct" /\ pc = "idle" /\ ~live
    /\ Store(new)
    /\ live' = TRUE
    /\ output' = NoDigest
    /\ fed' = <<>> /\ chunks' = 0 /\ reset_from' = NoReset
    /\ empty_call' = FALSE
    /\ UNCHANGED <<mode, overflow_checks, pc, input, reader>>

\* A reset that leaves the overall hasher as it is.
reset_keeps_overall ==
    /\ mode = "direct" /\ pc = "idle" /\ live
    /\ block_hasher' = Sha256New
    /\ block_pos' = 0
    /\ fed' = <<>> /\ chunks' = 0
    /\ reset_from' = <<block_pos, Len(overall_hasher)>>
    /\ empty_call' = FALSE
    /\ UNCHANGED <<mode, overflow_checks, pc, live, input, output, reader,
                   overall_hasher>>

\* lib.rs:93-99.
reset ==
    /\ mode = "direct" /\ pc = "idle" /\ live
    /\ overall_hasher' = Sha256New
    /\ block_hasher' = Sha256New
    /\ block_pos' = 0
    /\ fed' = <<>> /\ chunks' = 0
    /\ reset_from' = <<block_pos, Len(overall_hasher)>>
    /\ empty_call' = FALSE
    /\ UNCHANGED <<mode, overflow_checks, pc, live, input, output, reader>>

\* A call of input whose loop runs its body before its first test.
input_call_body_first ==
    /\ mode = "direct" /\ pc = "idle" /\ live
    /\ \E data \in ByteSeqs(MaxTotal - Len(fed)) :
        /\ input' = data
        /\ fed' = fed \o data
        /\ chunks' = IF Len(data) > 0 THEN chunks + 1 ELSE chunks
        /\ empty_call' = (Len(data) = 0)
    /\ pc' = "flush"
    /\ UNCHANGED <<mode, overflow_checks, live, hasher, output, reader,
                   reset_from>>

\* lib.rs:102-103: a call of input with data.
input_call ==
    /\ mode = "direct" /\ pc = "idle" /\ live
    /\ \E data \in ByteSeqs(MaxTotal - Len(fed)) :
        /\ input' = data
        /\ fed' = fed \o data
        /\ chunks' = IF Len(data) > 0 THEN chunks + 1 ELSE chunks
        /\ empty_call' = (Len(data) = 0)
    /\ pc' = "while"
    /\ UNCHANGED <<mode, overflow_checks, live, hasher, output, reader,
                   reset_from>>

\* lib.rs:104: the loop test; on exit input returns to its caller.
input_while ==
    /\ pc = "while"
    /\ pc' = IF loop_continues(Len(input), block_pos) THEN "flush"
             ELSE IF mode = "direct" THEN "idle" ELSE "read"
    /\ UNCHANGED <<mode, overflow_checks, live, hasher, input, output,
                   reader, history>>

\* lib.rs:105-110.
input_flush ==
    /\ pc = "flush"
    /\ Store(flush_if_full(self))
    /\ pc' = "absorb"
    /\ UNCHANGED <<mode, overflow_checks, live, input, output, reader,
                   history>>

\* lib.rs:112-117.
input_absorb ==
    /\ pc = "absorb"
    /\ LET space == space_in_block(block_pos, overflow_checks)
           n     == split_index(Len(input), space)
       IN  IF space < 0 \/ n > Len(input)
           THEN /\ pc' = "panic"
                /\ UNCHANGED <<hasher, input>>
           ELSE /\ Store(absorb(self, SubSeq(input, 1, n)))
                /\ input' = DropFront(input, n)
                /\ pc' = "while"
    /\ UNCHANGED <<mode, overflow_checks, live, output, reader, history>>

\* A fixed_result that borrows the instance and leaves it with its owner.
moved_out_still_owned == TRUE

\* The instance after fixed_result took self by value (lib.rs:125).
moved_out == FALSE

\* lib.rs:125-130, called by the owner through Digest::result.
finalize ==
    /\ mode = "direct" /\ pc = "idle" /\ live
    /\ overall_hasher' = final_overall(self)
    /\ output' = fixed_result(self)
    /\ live' = moved_out
    /\ empty_call' = FALSE
    /\ UNCHANGED <<mode, overflow_checks, pc, block_hasher, block_pos,
                   input, reader, fed, chunks, reset_from>>

-----------------------------------------------------------------------------
(* The wrappers hash_file (lib.rs:56-60) and hash_reader (lib.rs:74-84).   *)

\* What File::open may answer.
OpenOutcome == {Ok("file")} \cup {Err(e) : e \in IoError}

\* lib.rs:58: File::open(&path)?, then lib.rs:59 hands the file on.
hash_file_open ==
    /\ pc = "hash_file"
    /\ \E r \in OpenOutcome :
        IF r.kind = "Err"
        THEN /\ raised' = Raised("open", r.err)
             /\ ret' = r
             /\ pc' = "returned"
        ELSE /\ pc' = "hash_reader"
             /\ UNCHANGED <<raised, ret>>
    /\ UNCHANGED <<mode, overflow_checks, live, hasher, input, output,
                   stream, rpos, buf, nreads, history>>

\* lib.rs:76-77: the wrapper's own hasher and its zeroed buffer.
hash_reader_new ==
    /\ pc = "hash_reader"
    /\ Store(new)
    /\ live' = TRUE
    /\ buf' = [i \in 1..BLOCK_SIZE |-> 0]
    /\ pc' = "read"
    /\ UNCHANGED <<mode, overflow_checks, input, output, stream, rpos, ret,
                   nreads, raised, history>>

\* What reader.read(&mut buf) may answer with rem bytes left in the source:
\* an error, Ok(0) at the end of the stream, or between 1 and buf.len()
\* bytes of what is left (a short read).
ReadOutcome(rem, buflen) ==
    {Err(e) : e \in IoError}
        \cup (IF rem = 0 THEN {Ok(0)} ELSE {Ok(n) : n \in 1..Min(rem, buflen)})

\* A loop that takes a failed read for the end of the stream.
on_read_err_as_eof(e) == [pc |-> "result", ret |-> NoRet]

\* lib.rs:79: the `?` on a failed read: where hash_reader goes and what it
\* returns.
on_read_err(e) == [pc |-> "returned", ret |-> Err(e)]

\* lib.rs:80: the end-of-stream test.
is_eof(len) == len = 0

\* The whole buffer, stale bytes included.
read_slice_whole_buf(b, len) == b

\* lib.rs:81: the slice of the buffer handed to input.
read_slice(b, len) == SubSeq(b, 1, len)

\* lib.rs:79-81: one read, and what the loop does with its answer.
hash_reader_read ==
    /\ pc = "read"
    /\ nreads' = nreads + 1
    /\ \E r \in ReadOutcome(Len(stream) - rpos, Len(buf)) :
        IF r.kind = "Err"
        THEN /\ raised' = Raised("read", r.err)
             /\ ret' = on_read_err(r.err).ret
             /\ pc' = on_read_err(r.err).pc
             /\ live' = (on_read_err(r.err).pc # "returned")
             /\ UNCHANGED <<buf, rpos, input, fed, chunks>>
        ELSE LET len  == r.val
                 buf1 == [i \in 1..Len(buf) |->
                            IF i <= len THEN stream[rpos + i] ELSE buf[i]]
             IN  /\ buf' = buf1
                 /\ rpos' = rpos + len
                 /\ IF is_eof(len)
                    THEN /\ pc' = "result"
                         /\ UNCHANGED <<input, fed, chunks>>
                    ELSE /\ input' = read_slice(buf1, len)
                         /\ fed' = fed \o read_slice(buf1, len)
                         /\ chunks' = chunks + 1
                         /\ pc' = "while"
                 /\ UNCHANGED <<raised, ret, live>>
    /\ UNCHANGED <<mode, overflow_checks, hasher, output, stream,
                   reset_from, empty_call>>

\* lib.rs:83: Ok(hasher.result()).
hash_reader_result ==
    /\ pc = "result"
    /\ overall_hasher' = final_overall(self)
    /\ output' = fixed_result(self)
    /\ live' = moved_out
    /\ ret' = Ok(fixed_result(self))
    /\ pc' = "returned"
    /\ UNCHANGED <<mode, overflow_checks, block_hasher, block_pos, input,
                   stream, rpos, buf, nreads, raised, history>>

Next ==
    \/ New
    \/ reset
    \/ input_call
    \/ input_while
    \/ input_flush
    \/ input_absorb
    \/ finalize
    \/ hash_file_open
    \/ hash_reader_new
    \/ hash_reader_read
    \/ hash_reader_result

Spec == Init /\ [][Next]_vars

\* input is straight-line, single-threaded code (lib.rs:102-119): once
\* called, its loop keeps taking its next step.
InputRuns ==
    /\ WF_vars(input_while)
    /\ WF_vars(input_flush)
    /\ WF_vars(input_absorb)

LiveSpec == Init /\ [][Next]_vars /\ InputRuns

-----------------------------------------------------------------------------
(* Reference values the properties compare the code's results with.        *)

\* A digest was returned for the bytes in fed.
Finalized == output # NoDigest

\* reset was called on the instance.
WasReset == reset_from # NoReset

\* ceil(len(S) / BLOCK_SIZE).
NumBlocks(S) == (Len(S) + BLOCK_SIZE - 1) \div BLOCK_SIZE

\* The i-th consecutive block of S.
BlockOf(S, i) ==
    SubSeq(S, (i - 1) * BLOCK_SIZE + 1, Min(i * BLOCK_SIZE, Len(S)))

\* H(b1), ..., H(bn) in block order.
BlockDigests(S) == [i \in 1..NumBlocks(S) |-> Sha256Result(BlockOf(S, i))]

\* H(H(b1) || ... || H(bn)).
Composed(S) == Sha256Result(BlockDigests(S))

-----------------------------------------------------------------------------
(* Properties.                                                             *)

\* C1: chunking invariance.  A fresh hasher fed any sequence of input calls
\* and then finalized returns the digest that new(), one input(S), result()
\* returns, S being the concatenation of the chunks.
C1_ChunkingInvariance ==
    (mode = "direct" /\ Finalized /\ ~WasReset)
        => output = OneShot(fed, overflow_checks)

\* C1 witness: three or more non-empty chunks, crossing a block boundary,
\* were fed and the hasher was finalized.
C1_Witness ==
    /\ mode = "direct" /\ Finalized /\ ~WasReset
    /\ chunks >= 3 /\ Len(fed) > BLOCK_SIZE

\* C2: two-level composition.  For a non-empty total input S the digest is
\* H(H(b1) || ... || H(bn)), n = ceil(len(S) / BLOCK_SIZE), the blocks being
\* consecutive, of BLOCK_SIZE bytes but for the last, of 1..BLOCK_SIZE.
C2_TwoLevelComposition ==
    (Finalized /\ ~WasReset /\ Len(fed) > 0)
        => /\ output = Composed(fed)
           /\ \A i \in 1..NumBlocks(fed) :
                /\ Len(BlockOf(fed, i)) \in 1..BLOCK_SIZE
                /\ i < NumBlocks(fed) => Len(BlockOf(fed, i)) = BLOCK_SIZE

\* C2 witness: a finalized input of two full blocks and a partial one.
C2_Witness ==
    /\ Finalized /\ ~WasReset
    /\ Len(fed) > 2 * BLOCK_SIZE /\ Len(fed) % BLOCK_SIZE # 0

\* C3: empty input.  With no byte fed since new() or reset(), finalize feeds
\* nothing to the overall hasher and returns H(empty).
C3_EmptyInput ==
    (Finalized /\ Len(fed) = 0)
        => /\ overall_hasher = Sha256New
           /\ output = Sha256Result(<<>>)

\* C3 witness: a directly driven hasher finalized with nothing fed.
C3_Witness == mode = "direct" /\ Finalized /\ Len(fed) = 0

\* C4: exact multiple.  For k * BLOCK_SIZE bytes, k >= 1, finalize flushes
\* the full last block (block_pos = BLOCK_SIZE) and the digest is H over
\* exactly k block digests, with no digest of an empty trailing block.
C4_ExactMultiple ==
    (Finalized /\ Len(fed) > 0 /\ Len(fed) % BLOCK_SIZE = 0)
        => LET k == Len(fed) \div BLOCK_SIZE
           IN  /\ block_pos = BLOCK_SIZE
               /\ Len(overall_hasher) = k
               /\ output = Sha256Result(
                     [i \in 1..k |->
                        Sha256Result(SubSeq(fed, (i - 1) * BLOCK_SIZE + 1,
                                            i * BLOCK_SIZE))])

\* C4 witness: two full blocks, fed in several chunks, finalized.
C4_Witness ==
    /\ Finalized /\ Len(fed) = 2 * BLOCK_SIZE /\ chunks >= 2

\* C5: multi-block boundary.  For BLOCK_SIZE + 1 bytes the digest is
\* H(H(first BLOCK_SIZE bytes) || H(last byte)), digests in input order.
C5_MultiBlockBoundary ==
    (Finalized /\ Len(fed) = BLOCK_SIZE + 1)
        => output = Sha256Result(
              <<Sha256Result(SubSeq(fed, 1, BLOCK_SIZE)),
                Sha256Result(SubSeq(fed, BLOCK_SIZE + 1, BLOCK_SIZE + 1))>>)

\* C5 witness: BLOCK_SIZE + 1 bytes given in one input call, finalized.
C5_Witness ==
    /\ mode = "direct" /\ Finalized
    /\ Len(fed) = BLOCK_SIZE + 1 /\ chunks = 1


\* C6: idempotent reuse.  reset, from any reachable state, leaves the state
\* new() builds, and a reset hasher fed any sequence of input calls and
\* finalized returns the digest a fresh hasher returns for the same bytes.
C6_IdempotentReuse ==
    (mode = "direct" /\ WasReset)
        => /\ Len(fed) = 0 => self = new
           /\ Finalized => output = OneShot(fed, overflow_checks)

\* C6 witness: reset was called with a full unflushed block and a digest
\* already in the overall hasher; two blocks were then fed and finalized.
C6_Witness ==
    /\ mode = "direct" /\ reset_from = <<BLOCK_SIZE, 1>>
    /\ Finalized /\ Len(fed) > BLOCK_SIZE /\ chunks >= 2

\* C7: non-reuse after finalize.  fixed_result consumes the instance: once
\* a digest was returned the owner holds no instance, no input, reset or
\* second finalize touches the finalized state, and the only way on is a
\* fresh instance.
C7_NoReuseAfterFinalize ==
    /\ [](Finalized => ~live)
    /\ [][(mode = "direct" /\ Finalized)
            => \/ UNCHANGED <<hasher, input, output, fed, chunks, pc>>
               \/ /\ output' = NoDigest /\ live'
                  /\ self' = new /\ fed' = <<>>]_vars

\* C7 witness: a directly driven hasher that absorbed bytes was finalized.
C7_Witness == mode = "direct" /\ Finalized /\ ~live /\ Len(fed) > 0

\* C8: the core has no failure modes.  No operation panics; in the loop of
\* input BLOCK_SIZE - block_pos never underflows and the split index never
\* exceeds the length of the remaining input.
C8_NoPanic ==
    /\ pc # "panic"
    /\ pc = "absorb"
        => /\ block_pos <= BLOCK_SIZE
           /\ space_in_block(block_pos, TRUE) >= 0
           /\ split_index(Len(input), space_in_block(block_pos, TRUE))
                <= Len(input)

\* C8 witness: the loop is about to absorb the rest of an input that
\* crossed a block boundary, right after a flush.
C8_Witness ==
    /\ pc = "absorb" /\ block_pos = 0 /\ Len(overall_hasher) >= 1
    /\ Len(input) >= 1 /\ Len(input) < Len(fed)

\* C9: hash_reader under any read chunking.  When the source delivers its
\* stream S in reads of 1..BLOCK_SIZE bytes and then a read of 0, the
\* wrapper has fed the chunks in order, stopped at the first read of 0 and
\* returns the digest of new(), input(S), result().
C9_HashReaderCorrect ==
    (mode # "direct" /\ ret.kind = "Ok")
        => /\ ret.val = OneShot(stream, overflow_checks)
           /\ fed = stream
           /\ rpos = Len(stream)
           /\ nreads = chunks + 1

\* C9 witness: hash_reader returned a digest for a stream of more than one
\* block that came in more reads than it has blocks (short reads).
C9_Witness ==
    /\ mode = "hash_reader" /\ ret.kind = "Ok"
    /\ Len(stream) > BLOCK_SIZE /\ chunks > NumBlocks(stream)

\* C10: I/O error propagation.  A failed read makes hash_reader return that
\* error at once: no digest, no finalize, no further read, no retry.  A
\* failed open makes hash_file return that error with nothing read or
\* hashed.
C10_ErrorPropagation ==
    /\ [](ret.kind = "Err" => raised.by # "none")
    /\ [](raised.by # "none"
            => /\ ret = Err(raised.err)
               /\ pc = "returned"
               /\ output = NoDigest
               /\ ~live)
    /\ [](raised.by = "open"
            => nreads = 0 /\ fed = <<>> /\ self = new /\ buf = <<>>)
    /\ [][raised.by # "none" => UNCHANGED vars]_vars

\* C10 witness: a read failed mid-stream, after chunks were absorbed.
C10_Witness ==
    /\ ret.kind = "Err" /\ raised.by = "read"
    /\ chunks >= 2 /\ block_pos > 0 /\ Len(overall_hasher) >= 1


\* No call of input is running on an instance its owner still holds.
AtRest == live /\ pc \in {"idle", "read", "result"}

\* Bytes of fed the loop of input has consumed so far.
Consumed == Len(fed) - Len(input)

IsPrefix(s, t) == Len(s) <= Len(t) /\ SubSeq(t, 1, Len(s)) = s

\* C11: block position invariant.  In every state, inside a call of input
\* too, 0 <= block_pos <= BLOCK_SIZE and block_pos is the number of bytes
\* block_hasher absorbed since it was last fresh; the block hasher never
\* holds more than BLOCK_SIZE bytes.
C11_BlockPosInvariant ==
    /\ block_pos \in 0..BLOCK_SIZE
    /\ block_pos = Len(block_hasher)
    /\ Len(block_hasher) <= BLOCK_SIZE

\* C11 witness: inside a call of input, at the flush test, with the block
\* full and input left.
C11_Witness ==
    /\ pc = "flush" /\ block_pos = BLOCK_SIZE /\ Len(input) >= 1
    /\ Len(overall_hasher) >= 1

\* C12: lazy flush.  A call of input that ends with the block exactly full
\* returns with block_pos = BLOCK_SIZE and the block's digest not yet fed.
\* The overall hasher is fed only by the flush step of a later iteration,
\* with block_pos = BLOCK_SIZE and input left, before any of that input is
\* absorbed, or by fixed_result.
C12_LazyFlush ==
    /\ []((AtRest /\ ~Finalized /\ Len(fed) > 0 /\ Len(fed) % BLOCK_SIZE = 0)
            => /\ block_pos = BLOCK_SIZE
               /\ (Len(overall_hasher) + 1) * BLOCK_SIZE = Len(fed)
               /\ block_hasher = BlockOf(fed, NumBlocks(fed)))
    /\ [][(overall_hasher' # overall_hasher /\ overall_hasher' # Sha256New)
            => \/ /\ pc = "flush" /\ block_pos = BLOCK_SIZE
                  /\ Len(input) > 0 /\ input' = input
                  /\ block_hasher' = Sha256New /\ block_pos' = 0
               \/ /\ ~Finalized /\ Finalized'
                  /\ pc \in {"idle", "result"}]_vars

\* C12 witness: a later call triggered the flush of a block that an
\* earlier call had left full; none of the later call's bytes is absorbed.
C12_Witness ==
    /\ pc = "absorb" /\ block_pos = 0 /\ Len(overall_hasher) = 1
    /\ chunks >= 2 /\ Len(input) >= 1 /\ Len(fed) = BLOCK_SIZE + Len(input)

\* C13: exactly-once, in-order flushing.  The digests fed so far are always
\* a prefix of H(b1), H(b2), ...; before finalize every consumed byte is in
\* exactly one flushed block or in the current one; after finalize the
\* digests are exactly those of all blocks; finalize feeds one digest when
\* block_pos > 0 and none when block_pos = 0.
C13_ExactlyOnceInOrder ==
    /\ [](IsPrefix(overall_hasher, BlockDigests(fed)))
    /\ [](~Finalized
            => Len(overall_hasher) * BLOCK_SIZE + block_pos = Consumed)
    /\ [](Finalized => overall_hasher = BlockDigests(fed))
    /\ [][(~Finalized /\ Finalized')
            => Len(overall_hasher') =
                 Len(overall_hasher) + (IF block_pos > 0 THEN 1 ELSE 0)]_vars

\* C13 witness: two blocks were flushed inside input and finalize fed the
\* digest of the third.
C13_Witness ==
    /\ Finalized /\ Len(overall_hasher) = 3 /\ block_pos \in 1..BLOCK_SIZE
    /\ chunks >= 2

\* C14: position as a function of the bytes fed.  With no call of input
\* running and N bytes fed since new() or reset(): block_pos = 0 exactly
\* when N = 0; for N > 0, block_pos = ((N - 1) mod BLOCK_SIZE) + 1 and the
\* overall hasher received ceil(N / BLOCK_SIZE) - 1 digests; so the test of
\* fixed_result holds exactly when a byte was fed.
C14_PositionOfBytesFed ==
    (AtRest /\ ~Finalized)
        => LET N == Len(fed)
           IN  /\ (block_pos = 0) <=> (N = 0)
               /\ N > 0 => /\ block_pos = ((N - 1) % BLOCK_SIZE) + 1
                           /\ Len(overall_hasher) = NumBlocks(fed) - 1
               /\ has_trailing_block(block_pos) <=> (N > 0)

\* C14 witness: at rest after several calls, two full blocks fed.
C14_Witness ==
    /\ AtRest /\ ~Finalized /\ mode = "direct"
    /\ Len(fed) = 2 * BLOCK_SIZE /\ chunks >= 2


\* C15: zero-length input is a no-op.  From every reachable state, one with
\* a full unflushed block included, input of no bytes leaves overall_hasher,
\* block_hasher and block_pos as they are, flushes nothing and returns from
\* the loop test.
C15_EmptyInputNoOp ==
    /\ [][empty_call'
            => UNCHANGED <<overall_hasher, block_hasher, block_pos>>]_vars
    /\ [][(empty_call /\ pc = "while") => pc' = "idle"]_vars

\* C15 witness: an input of no bytes returned on a full unflushed block
\* with a digest already fed.
C15_Witness ==
    /\ empty_call /\ pc = "idle" /\ live
    /\ block_pos = BLOCK_SIZE /\ Len(overall_hasher) >= 1
    /\ Len(block_hasher) = BLOCK_SIZE


\* A call of input is running.
InLoop == pc \in {"while", "flush", "absorb"}

\* input returned to its caller.
Returned == pc \in {"idle", "read"}

\* C16: input terminates.  From every reachable state and for every finite
\* input the loop finishes; each iteration absorbs at least one byte (after
\* the conditional flush BLOCK_SIZE - block_pos >= 1, so head is not empty
\* while input is left); on return the whole input is consumed.
C16_InputTerminates ==
    /\ InLoop ~> (Returned /\ input = <<>>)
    /\ [](pc = "absorb" => (BLOCK_SIZE - block_pos >= 1 /\ Len(input) >= 1))
    /\ [][pc = "absorb" => Len(input') < Len(input)]_vars
    /\ [][(InLoop /\ Returned') => (pc = "while" /\ input = <<>>)]_vars

\* C16 witness: one call with an input of more than two blocks took its
\* iterations and returned with nothing left.
C16_Witness ==
    /\ pc = "idle" /\ live /\ ~Finalized /\ chunks = 1
    /\ Len(fed) > 2 * BLOCK_SIZE /\ Len(overall_hasher) = 2
    /\ input = <<>>

====
